---- MODULE Spec2Model ----
(***************************************************************************)
(* A model of src/bot.py: the EventSub WebSocket bot.                      *)
(*                                                                         *)
(*   - EventSubBot.run: the connect / handshake / subscribe / receive /    *)
(*     reconnect loop;                                                     *)
(*   - EventSubBot._on_connected, _handle_message, _handle_notification;   *)
(*   - EventSubBot._commands: the command processor (string level);        *)
(*   - EventSubBot._reply: the outbound limiter in front of send_chat.     *)
(*                                                                         *)
(* Time is counted in ticks of 0.2 s (TicksPerSecond ticks per second), so *)
(* that the 1.2 s send interval, the 2 s backoff, the 10 s handshake       *)
(* timeout and the 300 s cooldown are all whole numbers.  mono is the      *)
(* elapsed (monotonic) time, which asyncio.sleep and asyncio.wait_for      *)
(* follow; wall is what time.time() returns.                               *)
(*                                                                         *)
(* Texts are TLA+ strings; TLC evaluates Len, SubSeq and \o on them, so    *)
(* the string operations of _commands are modelled character by character. *)
(***************************************************************************)
EXTENDS Integers, Sequences, FiniteSets, TLC

(***************************************************************************)
(* Program constants.                                                      *)
(***************************************************************************)
TicksPerSecond == 5
\* self._send_interval = 1.2 (seconds)
send_interval == 6
\* cooldown = 300.0 (seconds)
cooldown == 1500
\* asyncio.sleep(2) of the run loop
BackoffDelay == 10
\* asyncio.wait_for(ws.recv(), timeout=10)
HandshakeTimeout == 50
\* max(1, min(5, count))
PrizeMin == 1
PrizeMax == 5

EVENTSUB_WS_URL == "wss://eventsub.wss.twitch.tv/ws?keepalive_timeout_seconds=30"

(***************************************************************************)
(* Bounds of the model.                                                    *)
(***************************************************************************)
\* frames the server sends in one run, its welcomes apart
MaxFrames == 2
\* frames waiting in the connection's receive queue
MaxQueue == 2
\* connection attempts in one run
MaxConnects == 2
\* commands waiting in the receive queue, in the chat specification
MaxBurst == 1
\* fragments of a chat message
MaxFragments == 3
\* ticks by which the wall clock is set forward or back
ClockJump == 10

None == "none"

\* Channels resolved at startup (self.broadcaster_ids), in dict order.
ChannelSeq == <<"alice", "bob">>
Channels == {ChannelSeq[i] : i \in 1..Len(ChannelSeq)}

\* URLs a session_reconnect frame may carry.
ReconnectUrls == {"wss://reconnect-1"}

(***************************************************************************)
(* Strings, as str.strip, str.lower, str.startswith, str.split,            *)
(* str.isdigit, int and str.lstrip compute them.                           *)
(***************************************************************************)
Char(s, i) == SubSeq(s, i, i)
Drop(s, n) == SubSeq(s, n + 1, Len(s))

WhitespaceChars == {" "}
UpperChars == "ABCDEFGHIJKLMNOPQRSTUVWXYZ"
LowerChars == "abcdefghijklmnopqrstuvwxyz"
\* int() reads the decimal digits only.
DecimalChars == "0123456789"
\* str.isdigit() is also True of the digits that are not decimal: the
\* superscript digits and the like.  "^" stands for U+00B2 (superscript
\* two): str.isdigit() is True of it and int() raises ValueError on it.
OtherDigitChars == {"^"}

IndexIn(c, alphabet) ==
    IF \E i \in 1..Len(alphabet) : Char(alphabet, i) = c
    THEN CHOOSE i \in 1..Len(alphabet) : Char(alphabet, i) = c
    ELSE 0

IsDecimalChar(c) == IndexIn(c, DecimalChars) > 0
IsDigitChar(c) == IsDecimalChar(c) \/ c \in OtherDigitChars

RECURSIVE LStripChars(_, _)
LStripChars(s, chars) ==
    IF Len(s) > 0 /\ Char(s, 1) \in chars THEN LStripChars(Drop(s, 1), chars) ELSE s

RECURSIVE RStripChars(_, _)
RStripChars(s, chars) ==
    IF Len(s) > 0 /\ Char(s, Len(s)) \in chars
    THEN RStripChars(SubSeq(s, 1, Len(s) - 1), chars)
    ELSE s

\* str.strip()
Strip(s) == RStripChars(LStripChars(s, WhitespaceChars), WhitespaceChars)

LowerChar(c) ==
    IF IndexIn(c, UpperChars) > 0 THEN Char(LowerChars, IndexIn(c, UpperChars)) ELSE c

\* str.lower()
RECURSIVE Lower(_)
Lower(s) == IF Len(s) = 0 THEN "" ELSE LowerChar(Char(s, 1)) \o Lower(Drop(s, 1))

\* str.startswith(prefix)
StartsWith(s, prefix) == Len(s) >= Len(prefix) /\ SubSeq(s, 1, Len(prefix)) = prefix

\* The length of the first run of non-whitespace characters of s.
RECURSIVE WordLen(_)
WordLen(s) ==
    IF Len(s) = 0 \/ Char(s, 1) \in WhitespaceChars THEN 0 ELSE 1 + WordLen(Drop(s, 1))

\* str.split(): the whitespace-separated words, in order.
RECURSIVE Split(_)
Split(s) ==
    LET r == LStripChars(s, WhitespaceChars)
        n == WordLen(r)
    IN  IF Len(r) = 0 THEN <<>> ELSE <<SubSeq(r, 1, n)>> \o Split(Drop(r, n))

\* str.isdigit(): not empty, and every character a digit.
IsDigit(s) == Len(s) > 0 /\ \A i \in 1..Len(s) : IsDigitChar(Char(s, i))

\* int(s) returns a value when every character is a decimal digit ...
IntParses(s) == Len(s) > 0 /\ \A i \in 1..Len(s) : IsDecimalChar(Char(s, i))

\* ... and that value is:
RECURSIVE IntValue(_)
IntValue(s) ==
    IF Len(s) = 0 THEN 0
    ELSE 10 * IntValue(SubSeq(s, 1, Len(s) - 1)) + (IndexIn(Char(s, Len(s)), DecimalChars) - 1)

Min(a, b) == IF a < b THEN a ELSE b
Max(a, b) == IF a > b THEN a ELSE b

(***************************************************************************)
(* EventSubBot._commands, up to the point where it calls _reply or         *)
(* set_lights_passthrough.  The result says what the handler does next:    *)
(*   "ignore"       return without a reply;                                *)
(*   "reply"        await self._reply(msg, ...);                           *)
(*   "passthrough"  call set_lights_passthrough(arg), then reply;          *)
(*   "raise"        an exception leaves the handler (int() on a string     *)
(*                  that isdigit() accepted).                              *)
(* A message is a record: form names the f-string, body, n and m are what  *)
(* it interpolates.                                                        *)
(***************************************************************************)
Msg(form, body, n, m) == [form |-> form, body |-> body, n |-> n, m |-> m]
NoMsg == Msg("none", "", 0, 0)
Outcome(kind, msg, arg) == [kind |-> kind, msg |-> msg, arg |-> arg]

\* remaining = cooldown - (now - self._last_lights)
Remaining(now, last) == cooldown - (now - last)

\* mins = int(remaining // 60); secs = int(remaining % 60)
CooldownMsg(remaining) ==
    Msg("cooldown", "", remaining \div (60 * TicksPerSecond),
        (remaining % (60 * TicksPerSecond)) \div TicksPerSecond)

\* The !lights branch.
LightsCommand(t, now, last) ==
    LET arg == Strip(Drop(t, Len("!lights")))
    IN  IF Len(arg) = 0
        THEN Outcome("reply", Msg("usage", "", 0, 0), "")
        ELSE IF Remaining(now, last) > 0
             THEN Outcome("reply", CooldownMsg(Remaining(now, last)), arg)
             ELSE Outcome("passthrough", NoMsg, arg)

\* count = max(1, min(5, count))
ClampCount(count) == Max(PrizeMin, Min(PrizeMax, count))

\* recipient = (chatter or "someone")
DefaultRecipient(chatter) == IF chatter = None \/ chatter = "" THEN "someone" ELSE chatter

\* parts[1].lstrip("@") or recipient
RecipientOf(word, recipient) ==
    IF Len(LStripChars(word, {"@"})) = 0 THEN recipient ELSE LStripChars(word, {"@"})

\* The !prize branch: the recipient and the count before clamping; ok is
\* FALSE when int() raises.
PrizeRequest(t, chatter) ==
    LET parts == Split(t)
        recipient == DefaultRecipient(chatter)
    IN  IF Len(parts) >= 2
        THEN IF IsDigit(parts[2])
             THEN [ok |-> IntParses(parts[2]), recipient |-> recipient,
                   count |-> IF IntParses(parts[2]) THEN IntValue(parts[2]) ELSE 0]
             ELSE IF Len(parts) >= 3 /\ IsDigit(parts[3])
                  THEN [ok |-> IntParses(parts[3]),
                        recipient |-> RecipientOf(parts[2], recipient),
                        count |-> IF IntParses(parts[3]) THEN IntValue(parts[3]) ELSE 0]
                  ELSE [ok |-> TRUE, recipient |-> RecipientOf(parts[2], recipient),
                        count |-> 1]
        ELSE [ok |-> TRUE, recipient |-> recipient, count |-> 1]

\* The reply of !prize: n is the number of generate_prize() calls; the
\* form is the singular or the "; "-joined one.
PrizeCommand(t, chatter) ==
    LET req == PrizeRequest(t, chatter)
        count == ClampCount(req.count)
    IN  IF ~req.ok
        THEN Outcome("raise", NoMsg, "")
        ELSE Outcome("reply",
                     Msg(IF count = 1 THEN "prize" ELSE "prizes", req.recipient, count, 0),
                     "")

Commands(text, chatter, now, last) ==
    LET t == Strip(IF text = None THEN "" ELSE text)
        lower == Lower(t)
    IN  IF ~StartsWith(t, "!") THEN Outcome("ignore", NoMsg, "")
        ELSE IF lower = "!hello" THEN Outcome("reply", Msg("hello", "", 0, 0), "")
        ELSE IF StartsWith(lower, "!echo ") THEN Outcome("reply", Msg("echo", Drop(t, 6), 0, 0), "")
        ELSE IF StartsWith(lower, "!lights") THEN LightsCommand(t, now, last)
        ELSE IF lower = "!help" THEN Outcome("reply", Msg("help", "", 0, 0), "")
        ELSE IF StartsWith(lower, "!prize") THEN PrizeCommand(t, chatter)
        ELSE Outcome("ignore", NoMsg, "")

\* str.join with separator sep.
RECURSIVE Join(_, _)
Join(parts, sep) ==
    IF Len(parts) = 0 THEN ""
    ELSE IF Len(parts) = 1 THEN parts[1]
    ELSE parts[1] \o sep \o Join(Tail(parts), sep)

\* f.get("text", "")
FragmentText(f) == IF f.text = None THEN "" ELSE f.text

\* A faulty variant: the fragments joined with a space.
ExtractPlainTextSpaced(frags, text) ==
    IF frags # <<>> THEN Join([i \in 1..Len(frags) |-> FragmentText(frags[i])], " ")
    ELSE IF text = None THEN "" ELSE text

\* extract_plain_text_from_message: the text of every fragment, whatever its
\* type, joined; or message.text when there is no fragment.
ExtractPlainText(frags, text) ==
    LET parts == [i \in 1..Len(frags) |->
                    IF frags[i].type = "text" THEN FragmentText(frags[i])
                    ELSE FragmentText(frags[i])]
    IN  IF parts # <<>> THEN Join(parts, "")
        ELSE IF text = None THEN "" ELSE text

\* A faulty variant: _reply without its sleep.
ReplyDelayNone(now, last) == 0

\* EventSubBot._reply: the sleep before send_chat.
\*   if now - self._last_send < self._send_interval:
\*       await asyncio.sleep(self._send_interval - (now - self._last_send))
ReplyDelay(now, last) ==
    IF now - last < send_interval THEN send_interval - (now - last) ELSE 0

(***************************************************************************)
(* Frames of the transport, as the server sends them.                      *)
(***************************************************************************)
\* text and frags are event.message.text and event.message.fragments of a
\* notification; a fragment is [type, text], text None when it has no
\* "text" key.
Frame(kind, seq, sid, u, ch, chatter, text) ==
    [kind |-> kind, seq |-> seq, sid |-> sid, url |-> u, ch |-> ch,
     chatter |-> chatter, text |-> text, frags |-> <<>>]
NoFrame == Frame("none", 0, None, None, None, None, "")

\* The session id of the welcome of the n-th connection.
SessionOf(n) == IF n % 2 = 1 THEN "s1" ELSE "s2"

\* The frames that are no notification, as the server's seq-th frame on the
\* n-th connection.
WelcomeFrame(seq, n) == Frame("session_welcome", seq, SessionOf(n), None, None, None, "")
ControlFrames(seq, n) ==
    {WelcomeFrame(seq, n)}
    \cup {Frame(k, seq, None, None, None, None, "") :
            k \in {"session_keepalive", "revocation", "non_json"}}
    \cup {Frame("session_reconnect", seq, None, u, None, None, "") : u \in ReconnectUrls}

\* A channel.chat.message notification whose message has a text and no
\* fragments, and one whose message has fragments.
ChatFrame(seq, ch, chatter, text) == Frame("notification", seq, None, None, ch, chatter, text)
RichFrame(seq, ch, chatter, frags, text) ==
    [ChatFrame(seq, ch, chatter, text) EXCEPT !.frags = frags]

\* The frames of the run loop's specification: every kind of frame, and one
\* command.
LoopFrames(seq, n) == ControlFrames(seq, n) \cup {ChatFrame(seq, "alice", "carol", "!hello")}

\* The frames of the chat specification: the welcome, and a command from
\* either channel.
ChatFrames(seq, n) ==
    {WelcomeFrame(seq, n)}
    \cup {ChatFrame(seq, c[1], "carol", c[2]) :
            c \in {<<"alice", "!lights red">>, <<"bob", "!lights red">>}}

\* HTTP status codes of the REST gateway: success, unauthorized, another
\* failure (status_code >= 400).
HttpOk == 200
HttpUnauthorized == 401
HttpBadRequest == 400
HttpStatuses == {HttpOk, HttpUnauthorized, HttpBadRequest}

\* time.time() when the process starts, in ticks since the epoch.
StartWall == 2000

VARIABLES
    pc,           \* where run() is: connecting, handshake, subscribing, active,
                  \* lights_call, reply, backoff, closed
    url,          \* run()'s local url: the target of the next connect
    conn,         \* the transport: none, open, closed_ok, closed_err
    inbox,        \* frames received on the connection and not yet read
    session,      \* the session id of the welcome read on this connection
    subIdx,       \* the position of _on_connected's for loop in ChannelSeq
    wake,         \* when the pending asyncio.sleep / wait_for ends (mono)
    last_send,    \* self._last_send
    last_lights,  \* self._last_lights
    cur,          \* the notification frame _commands is working on
    pending,      \* the message _reply is about to send
    lightsNow,    \* _commands' local now of the !lights branch
    mono,         \* elapsed time
    wall,         \* time.time()
    \* history, for the statement of the properties
    nFrames,      \* frames the server has sent
    nData,        \* those that are no session_welcome
    welcomed,     \* the server has sent its welcome on this connection
    nConnects,    \* connection attempts made
    target,       \* the last connection attempt: its URL, and the hint pending then
    subLog,       \* create_subscription calls on this connection
    handledSeq,   \* seq of the last frame the receive loop dispatched
    sent,         \* the last send_chat calls that returned: see NoSent
    lights,       \* the !lights <value> invocations so far: see NoLights
    hint,         \* the URL of a session_reconnect frame read in the receive loop
    lastRest,     \* the status of the last REST call since the last sleep
    stopped       \* the shutdown signal has been delivered

loopVars == <<pc, url, conn, inbox, session, subIdx, wake, cur, pending, lightsNow>>
botVars == <<last_send, last_lights>>
timeVars == <<mono, wall>>
histVars == <<nFrames, nData, welcomed, nConnects, target, subLog, handledSeq, sent,
              lights, hint, lastRest, stopped>>
vars == <<loopVars, botVars, timeVars, histVars>>

NoTarget == [url |-> None, hint |-> None]
\* The last send_chat that returned: the frame it answers, when it returned
\* (mono), its channel, the connection, how many have returned; and when,
\* where and on which connection the one before it did.
NoSent == [seq |-> 0, at |-> -1, ch |-> None, k |-> 0, n |-> 0,
           prevAt |-> -1, prevCh |-> None, prevK |-> 0]
\* The !lights <value> invocations: when the last one was issued (mono), its
\* channel and how it ended (cooldown, calling, ok, fail); how the one
\* before it ended; when and where the last successful one was issued.
NoLights == [at |-> -1, ch |-> None, result |-> "none", prev |-> "none",
             okAt |-> -1, okCh |-> None]

\* A faulty variant: __init__ stamps both timestamps with the time of the
\* start.
InitStamped ==
    /\ pc = "connecting"
    /\ url = EVENTSUB_WS_URL
    /\ conn = None
    /\ inbox = <<>>
    /\ session = None
    /\ subIdx = 0
    /\ wake = 0
    /\ last_send = StartWall
    /\ last_lights = StartWall
    /\ cur = NoFrame
    /\ pending = NoMsg
    /\ lightsNow = 0
    /\ mono = 0
    /\ wall = StartWall
    /\ nFrames = 0
    /\ nData = 0
    /\ welcomed = FALSE
    /\ nConnects = 0
    /\ target = NoTarget
    /\ subLog = <<>>
    /\ handledSeq = 0
    /\ sent = NoSent
    /\ lights = NoLights
    /\ hint = None
    /\ lastRest = 0
    /\ stopped = FALSE

\* EventSubBot.__init__ and the start of run().
Init ==
    /\ pc = "connecting"
    /\ url = EVENTSUB_WS_URL
    /\ conn = None
    /\ inbox = <<>>
    /\ session = None
    /\ subIdx = 0
    /\ wake = 0
    /\ last_send = 0
    /\ last_lights = 0
    /\ cur = NoFrame
    /\ pending = NoMsg
    /\ lightsNow = 0
    /\ mono = 0
    /\ wall = StartWall
    /\ nFrames = 0
    /\ nData = 0
    /\ welcomed = FALSE
    /\ nConnects = 0
    /\ target = NoTarget
    /\ subLog = <<>>
    /\ handledSeq = 0
    /\ sent = NoSent
    /\ lights = NoLights
    /\ hint = None
    /\ lastRest = 0
    /\ stopped = FALSE

(***************************************************************************)
(* The environment: the server, the clock.                                 *)
(***************************************************************************)
\* The server sends a frame on the open connection: its welcome at most
\* once.  While the handshake waits in wait_for, a frame arrives before the
\* timeout or not at all.
ServerSend(f) ==
    /\ conn = "open"
    /\ Len(inbox) < MaxQueue
    /\ pc = "handshake" => mono < wake
    /\ IF f.kind = "session_welcome"
       THEN /\ ~welcomed
            /\ welcomed' = TRUE
            /\ nData' = nData
       ELSE /\ nData < MaxFrames
            /\ nData' = nData + 1
            /\ welcomed' = welcomed
    /\ inbox' = Append(inbox, f)
    /\ nFrames' = nFrames + 1
    /\ UNCHANGED <<pc, url, conn, session, subIdx, wake, cur, pending, lightsNow,
                   botVars, timeVars, nConnects, target, subLog, handledSeq, sent,
                   lights, hint, lastRest, stopped>>

\* The server, or the network, closes the connection: normally (close code
\* 1000, ConnectionClosedOK) or not (ConnectionClosedError).
ServerClose(how) ==
    /\ conn = "open"
    /\ conn' = how
    /\ UNCHANGED <<pc, url, inbox, session, subIdx, wake, cur, pending, lightsNow,
                   botVars, timeVars, histVars>>

\* Time passes while the program waits.  In a sleep or in wait_for it
\* passes to the end of the wait.  In the receive loop, waiting for the next
\* frame, it passes to one of the instants the next command's outcome
\* depends on: the end of the send interval after self._last_send and the
\* end of the cooldown after self._last_lights, or one tick before them.
\* The calls the program makes in between take no time.
Instants ==
    {mono + ((last_send + send_interval) - wall),
     mono + ((last_lights + cooldown) - wall)}

TickSteps ==
    IF wake > mono
    THEN IF pc = "handshake"
         THEN IF inbox # <<>> THEN {} ELSE {wake - mono} \cup ({wake - 1 - mono} \ {0})
         ELSE {wake - mono}
    ELSE IF pc = "active" /\ inbox = <<>>
         THEN {t - mono : t \in {i \in Instants : i > mono}}
              \cup {t - 1 - mono : t \in {i \in Instants : i - 1 > mono}}
         ELSE {}

Tick(d) ==
    /\ pc # "closed"
    /\ mono' = mono + d
    /\ wall' = wall + d
    /\ UNCHANGED <<loopVars, botVars, histVars>>

\* The wall clock is set forward or back by d (NTP, an operator) while the
\* receive loop waits for a frame: what time.time() returns changes, the
\* elapsed time does not.  It stays within ClockJump of where it would be.
ClockStep(d) ==
    /\ pc = "active"
    /\ inbox = <<>>
    /\ (wall + d) - mono \in {StartWall - ClockJump, StartWall, StartWall + ClockJump}
    /\ wall' = wall + d
    /\ UNCHANGED <<mono, loopVars, botVars, histVars>>

(***************************************************************************)
(* EventSubBot.run.                                                        *)
(***************************************************************************)
\* A faulty variant: the except clause is reached with the connection
\* left as it was.
ExceptKeepingConnection ==
    /\ pc' = "backoff"
    /\ wake' = mono + BackoffDelay
    /\ conn' = conn
    /\ inbox' = inbox
    /\ session' = session
    /\ subIdx' = 0
    /\ cur' = NoFrame
    /\ pending' = NoMsg
    /\ lightsNow' = 0
    /\ url' = url

\* A faulty variant: the except clause puts the default URL back.
ExceptAndResetUrl ==
    /\ pc' = "backoff"
    /\ wake' = mono + BackoffDelay
    /\ conn' = None
    /\ inbox' = <<>>
    /\ session' = None
    /\ subIdx' = 0
    /\ cur' = NoFrame
    /\ pending' = NoMsg
    /\ lightsNow' = 0
    /\ url' = EVENTSUB_WS_URL

\* A faulty variant: an except clause that returns from run.
ExceptAndReturn ==
    /\ pc' = "closed"
    /\ wake' = 0
    /\ conn' = None
    /\ inbox' = <<>>
    /\ session' = None
    /\ subIdx' = 0
    /\ cur' = NoFrame
    /\ pending' = NoMsg
    /\ lightsNow' = 0
    /\ url' = url

\* An exception leaves the try block: the async with closes the
\* connection, both except clauses print and await asyncio.sleep(2), and
\* the while loop goes on with url as it was.
ExceptAndSleep ==
    /\ pc' = "backoff"
    /\ wake' = mono + BackoffDelay
    /\ conn' = None
    /\ inbox' = <<>>
    /\ session' = None
    /\ subIdx' = 0
    /\ cur' = NoFrame
    /\ pending' = NoMsg
    /\ lightsNow' = 0
    /\ url' = url

\* websockets.connect(url): the connection opens and _on_connected starts
\* its first wait_for(ws.recv(), 10), or connect raises.
Connect(ok) ==
    /\ pc = "connecting"
    /\ nConnects < MaxConnects
    /\ nConnects' = nConnects + 1
    /\ target' = [url |-> url, hint |-> hint]
    /\ hint' = None
    /\ subLog' = <<>>
    /\ welcomed' = FALSE
    /\ IF ok
       THEN /\ pc' = "handshake"
            /\ conn' = "open"
            /\ wake' = mono + HandshakeTimeout
            /\ UNCHANGED <<url, inbox, session, subIdx, cur, pending, lightsNow>>
       ELSE ExceptAndSleep
    /\ UNCHANGED <<botVars, timeVars, nFrames, nData, handledSeq, sent, lights, lastRest, stopped>>

\* The asyncio.sleep(2) of an except clause ends.
BackoffDone ==
    /\ pc = "backoff"
    /\ mono >= wake
    /\ pc' = "connecting"
    /\ wake' = 0
    /\ lastRest' = 0
    /\ UNCHANGED <<url, conn, inbox, session, subIdx, cur, pending, lightsNow,
                   botVars, timeVars, nFrames, nData, welcomed, nConnects, target,
                   subLog, handledSeq, sent, lights, hint,
                   stopped>>

\* KeyboardInterrupt: the async with closes the connection and run
\* returns; its locals are gone.
Shutdown ==
    /\ pc # "closed"
    /\ pc' = "closed"
    /\ stopped' = TRUE
    /\ conn' = None
    /\ inbox' = <<>>
    /\ session' = None
    /\ subIdx' = 0
    /\ wake' = 0
    /\ cur' = NoFrame
    /\ pending' = NoMsg
    /\ lightsNow' = 0
    /\ UNCHANGED <<url, botVars, timeVars, nFrames, nData, welcomed, nConnects, target,
                   subLog, handledSeq, sent, lights, hint,
                   lastRest>>

(***************************************************************************)
(* EventSubBot._on_connected.                                              *)
(***************************************************************************)
\* A faulty variant: recv() returns the newest frame of the queue.
NextFrameNewest(q) == q[Len(q)]

\* The frame the next recv() returns, and the queue after it.
NextFrame(q) == Head(q)
RestFrames(q) == Tail(q)

\* wait_for(ws.recv(), 10) returns a frame.
OnConnectedRecv ==
    /\ pc = "handshake"
    /\ inbox # <<>>
    /\ LET f == NextFrame(inbox) IN
       CASE f.kind = "non_json" ->
              \* json.loads raises
              ExceptAndSleep
         [] f.kind = "session_welcome" ->
              /\ session' = f.sid
              /\ pc' = "subscribing"
              /\ subIdx' = 1
              /\ wake' = 0
              /\ inbox' = RestFrames(inbox)
              /\ UNCHANGED <<url, conn, cur, pending, lightsNow>>
         [] f.kind = "session_reconnect" ->
              \* return reconnect_url: run assigns it to url and enters
              \* its receive loop on this connection
              /\ url' = f.url
              /\ pc' = "active"
              /\ wake' = 0
              /\ inbox' = RestFrames(inbox)
              /\ UNCHANGED <<conn, session, subIdx, cur, pending, lightsNow>>
         [] OTHER ->
              \* pass: the while loop waits again, ten more seconds
              /\ wake' = mono + HandshakeTimeout
              /\ inbox' = RestFrames(inbox)
              /\ UNCHANGED <<pc, url, conn, session, subIdx, cur, pending, lightsNow>>
    /\ UNCHANGED <<botVars, timeVars, histVars>>

\* wait_for raises asyncio.TimeoutError.
OnConnectedTimeout ==
    /\ pc = "handshake"
    /\ inbox = <<>>
    /\ conn = "open"
    /\ mono >= wake
    /\ ExceptAndSleep
    /\ UNCHANGED <<botVars, timeVars, histVars>>

\* recv() raises ConnectionClosedOK or ConnectionClosedError.
OnConnectedClosed ==
    /\ pc = "handshake"
    /\ inbox = <<>>
    /\ conn \in {"closed_ok", "closed_err"}
    /\ ExceptAndSleep
    /\ UNCHANGED <<botVars, timeVars, histVars>>

\* One create_subscription call of the for loop; after the last one
\* _on_connected returns EVENTSUB_WS_URL and the receive loop starts.
CreateSubscription(status) ==
    /\ pc = "subscribing"
    /\ subLog' = Append(subLog, [sid |-> session, ch |-> ChannelSeq[subIdx],
                                 status |-> status])
    /\ lastRest' = status
    /\ IF status >= HttpBadRequest
       THEN ExceptAndSleep
       ELSE IF subIdx < Len(ChannelSeq)
            THEN /\ subIdx' = subIdx + 1
                 /\ UNCHANGED <<pc, url, conn, inbox, session, wake, cur, pending, lightsNow>>
            ELSE /\ url' = EVENTSUB_WS_URL
                 /\ pc' = "active"
                 /\ subIdx' = 0
                 /\ UNCHANGED <<conn, inbox, session, wake, cur, pending, lightsNow>>
    /\ UNCHANGED <<botVars, timeVars, nFrames, nData, welcomed, nConnects, target,
                   handledSeq, sent, lights, hint, stopped>>

(***************************************************************************)
(* The receive loop of run: async for raw in ws: _handle_message(raw).     *)
(***************************************************************************)
\* _reply up to its sleep: now = time.time(), then the delay.
StartReply(msg) ==
    /\ pending' = msg
    /\ pc' = "reply"
    /\ wake' = mono + ReplyDelay(wall, last_send)

\* A faulty variant: json.loads raises out of _handle_message, as it does
\* out of _on_connected.
HandleMessageRaising ==
    /\ pc = "active"
    /\ inbox # <<>>
    /\ NextFrame(inbox).kind # "notification"
    /\ handledSeq' = NextFrame(inbox).seq
    /\ hint' = IF NextFrame(inbox).kind = "session_reconnect"
               THEN NextFrame(inbox).url ELSE hint
    /\ IF NextFrame(inbox).kind = "non_json"
       THEN ExceptAndSleep
       ELSE /\ inbox' = RestFrames(inbox)
            /\ UNCHANGED <<pc, url, conn, session, subIdx, wake, cur, pending, lightsNow>>
    /\ UNCHANGED <<botVars, timeVars, nFrames, nData, welcomed, nConnects, target,
                   subLog, sent, lights, lastRest, stopped>>

\* _handle_message on a frame that is no notification: a frame that is not
\* JSON, a keepalive, a reconnect hint and a revocation are printed or
\* dropped, and the loop goes on.
HandleMessage ==
    /\ pc = "active"
    /\ inbox # <<>>
    /\ NextFrame(inbox).kind # "notification"
    /\ inbox' = RestFrames(inbox)
    /\ handledSeq' = NextFrame(inbox).seq
    /\ hint' = IF NextFrame(inbox).kind = "session_reconnect"
               THEN NextFrame(inbox).url ELSE hint
    /\ UNCHANGED <<pc, url, conn, session, subIdx, wake, cur, pending, lightsNow,
                   botVars, timeVars, nFrames, nData, welcomed, nConnects, target,
                   subLog, sent, lights, lastRest, stopped>>

\* _handle_message on a channel.chat.message notification:
\* _handle_notification, then _commands up to its first await or call out.
HandleNotification ==
    /\ pc = "active"
    /\ inbox # <<>>
    /\ NextFrame(inbox).kind = "notification"
    /\ LET f == NextFrame(inbox)
           out == Commands(ExtractPlainText(f.frags, f.text), f.chatter, wall, last_lights)
       IN  /\ handledSeq' = f.seq
           /\ lights' = IF out.kind = "passthrough" \/ out.msg.form = "cooldown"
                        THEN [lights EXCEPT
                                !.at = mono, !.ch = f.ch, !.prev = lights.result,
                                !.result = IF out.kind = "passthrough" THEN "calling"
                                           ELSE "cooldown"]
                        ELSE lights
           /\ CASE out.kind = "ignore" ->
                     /\ inbox' = RestFrames(inbox)
                     /\ UNCHANGED <<pc, url, conn, session, subIdx, wake, cur, pending,
                                    lightsNow>>
                [] out.kind = "reply" ->
                     /\ StartReply(out.msg)
                     /\ cur' = f
                     /\ inbox' = RestFrames(inbox)
                     /\ UNCHANGED <<url, conn, session, subIdx, lightsNow>>
                [] out.kind = "passthrough" ->
                     /\ pc' = "lights_call"
                     /\ lightsNow' = wall
                     /\ pending' = Msg("calling", out.arg, 0, 0)
                     /\ cur' = f
                     /\ inbox' = RestFrames(inbox)
                     /\ UNCHANGED <<url, conn, session, subIdx, wake>>
                [] OTHER ->
                     \* "raise": the exception reaches run's except clause
                     ExceptAndSleep
    /\ UNCHANGED <<botVars, timeVars, nFrames, nData, welcomed, nConnects, target,
                   subLog, sent, hint, lastRest, stopped>>

\* A faulty variant: the cooldown clock is never reset.
LightsStampNever(ok, now, last) == last
\* A faulty variant: the cooldown clock is reset by a failed call too.
LightsStampAlways(ok, now, last) == now

\* self._last_lights after set_lights_passthrough has returned (ok, msg).
LightsStamp(ok, now, last) == IF ok THEN now ELSE last

\* set_lights_passthrough returns; _commands replies.
LightsReturn(ok) ==
    /\ pc = "lights_call"
    /\ last_lights' = LightsStamp(ok, lightsNow, last_lights)
    /\ lights' = [lights EXCEPT
                    !.result = IF ok THEN "ok" ELSE "fail",
                    !.okAt = IF ok THEN lights.at ELSE lights.okAt,
                    !.okCh = IF ok THEN lights.ch ELSE lights.okCh]
    /\ lightsNow' = 0
    /\ StartReply(Msg(IF ok THEN "lights_set" ELSE "lights_error", pending.body, 0, 0))
    /\ UNCHANGED <<url, conn, inbox, session, subIdx, cur, last_send,
                   timeVars, nFrames, nData, welcomed, nConnects, target, subLog,
                   handledSeq, sent, hint, lastRest, stopped>>

\* _reply after its sleep: send_chat returns, and self._last_send =
\* time.time(); or send_chat raises RuntimeError.
SendChat(status) ==
    /\ pc = "reply"
    /\ mono >= wake
    /\ lastRest' = status
    /\ IF status >= HttpBadRequest
       THEN /\ ExceptAndSleep
            /\ UNCHANGED <<last_send, sent>>
       ELSE /\ last_send' = wall
            /\ sent' = [seq |-> cur.seq, at |-> mono, ch |-> cur.ch, k |-> nConnects,
                        n |-> sent.n + 1,
                        prevAt |-> sent.at, prevCh |-> sent.ch, prevK |-> sent.k]
            /\ pc' = "active"
            /\ pending' = NoMsg
            /\ cur' = NoFrame
            /\ wake' = 0
            /\ UNCHANGED <<url, conn, inbox, session, subIdx, lightsNow>>
    /\ UNCHANGED <<last_lights, timeVars, nFrames, nData, welcomed, nConnects, target,
                   subLog, handledSeq, lights, hint, stopped>>

\* The connection was closed normally and every frame has been read: the
\* async for ends, the async with exits, and the while loop connects again
\* at once.
ReceiveLoopEnds ==
    /\ pc = "active"
    /\ inbox = <<>>
    /\ conn = "closed_ok"
    /\ pc' = "connecting"
    /\ conn' = None
    /\ session' = None
    /\ UNCHANGED <<url, inbox, subIdx, wake, cur, pending, lightsNow,
                   botVars, timeVars, histVars>>

\* The async for raises ConnectionClosedError.
ReceiveLoopError ==
    /\ pc = "active"
    /\ inbox = <<>>
    /\ conn = "closed_err"
    /\ ExceptAndSleep
    /\ UNCHANGED <<botVars, timeVars, histVars>>

\* The steps of run and _on_connected, and of the receive loop on the
\* frames that are no notification.
SessionStep ==
    \/ \E ok \in BOOLEAN : Connect(ok)
    \/ BackoffDone
    \/ Shutdown
    \/ OnConnectedRecv
    \/ OnConnectedTimeout
    \/ OnConnectedClosed
    \/ \E status \in HttpStatuses : CreateSubscription(status)
    \/ HandleMessage
    \/ ReceiveLoopEnds
    \/ ReceiveLoopError

\* The steps of the environment, but for the frames.
EnvStep ==
    \/ \E how \in {"closed_ok", "closed_err"} : ServerClose(how)
    \/ \E d \in TickSteps : Tick(d)

\* The run loop against a server that sends every kind of frame.
Next ==
    \/ SessionStep
    \/ HandleNotification
    \/ \E status \in HttpStatuses : SendChat(status)
    \/ EnvStep
    \/ \E f \in LoopFrames(nFrames + 1, nConnects) : ServerSend(f)

Spec == Init /\ [][Next]_vars

\* The run loop against a server that sends no chat, with the scheduling
\* of asyncio: time passes, and a sleep that has ended returns.
NextRetry ==
    \/ SessionStep
    \/ EnvStep
    \/ \E f \in ControlFrames(nFrames + 1, nConnects) : ServerSend(f)

SpecRetry ==
    /\ Init
    /\ [][NextRetry]_vars
    /\ WF_vars(BackoffDone)
    /\ WF_vars(\E d \in TickSteps : Tick(d))

\* The chat specification: a server that sends its welcome and commands
\* from two channels and may close the connection, subscriptions that
\* succeed, a lighting passthrough and chat sends that succeed or fail.
NextChat ==
    \/ Connect(TRUE)
    \/ BackoffDone
    \/ OnConnectedRecv
    \/ OnConnectedClosed
    \/ CreateSubscription(HttpOk)
    \/ HandleNotification
    \/ \E ok \in BOOLEAN : LightsReturn(ok)
    \/ \E status \in {HttpOk, HttpBadRequest} : SendChat(status)
    \/ ReceiveLoopEnds
    \/ ServerClose("closed_ok")
    \/ \E d \in TickSteps : pc # "handshake" /\ Tick(d)
    \/ \E f \in ChatFrames(nFrames + 1, nConnects) : Len(inbox) < MaxBurst /\ ServerSend(f)

SpecChat == Init /\ [][NextChat]_vars

\* The chat specification on a machine whose wall clock is adjusted.
NextClock ==
    \/ NextChat
    \/ \E d \in {-ClockJump, ClockJump} : ClockStep(d)

SpecClock == Init /\ [][NextClock]_vars

\* The command specification: an established session, subscribed to every
\* channel, with one chat message of any of these texts, from a named or an
\* unnamed chatter, waiting in the queue.
CommandTexts ==
    {"!prize", "!prize 7", "!prize 0", "!prize 3", "!prize 007", "!prize bob 3",
     "!prize bob", "!prize @bob 9", "!PRIZE 2", "!prize ^", "!prize bob ^",
     "!prizes", "!prizefight 2", "!lights red", "!lights", "!lightsaber",
     "!lightsx red", "!hello", "!helloo", "!help", "!echo hi", "!echo",
     "!xyzzy", "!", "hello", "hi !hello", "", "!prize 12", "!HELLO",
     "!prize @bob", "!ECHO Hi There", "!echo "}
Chatters == {"carol", None}

\* An established session with frame f, the first after the welcome,
\* waiting in the queue.
Established(f) ==
    /\ pc = "active"
    /\ url = EVENTSUB_WS_URL
    /\ conn = "open"
    /\ inbox = <<f>>
    /\ session = SessionOf(1)
    /\ subIdx = 0
    /\ wake = 0
    /\ last_send = 0
    /\ last_lights = 0
    /\ cur = NoFrame
    /\ pending = NoMsg
    /\ lightsNow = 0
    /\ mono = 0
    /\ wall = StartWall
    /\ nFrames = 2
    /\ nData = 1
    /\ welcomed = TRUE
    /\ nConnects = 1
    /\ target = [url |-> EVENTSUB_WS_URL, hint |-> None]
    /\ subLog = [i \in 1..Len(ChannelSeq) |->
                    [sid |-> SessionOf(1), ch |-> ChannelSeq[i], status |-> HttpOk]]
    /\ handledSeq = 0
    /\ sent = NoSent
    /\ lights = NoLights
    /\ hint = None
    /\ lastRest = HttpOk
    /\ stopped = FALSE

InitCmd ==
    \E text \in CommandTexts, chatter \in Chatters :
        Established(ChatFrame(2, "alice", chatter, text))

NextCmd ==
    \/ HandleNotification
    \/ \E ok \in BOOLEAN : LightsReturn(ok)
    \/ \E status \in HttpStatuses : SendChat(status)

SpecCmd == InitCmd /\ [][NextCmd]_vars

\* The malformed-frame specification: an established session to which the
\* server sends frames that are not JSON, and commands that reply and that
\* set the lights.
DropFrames(seq) ==
    {Frame("non_json", seq, None, None, None, None, "")}
    \cup {ChatFrame(seq, "alice", "carol", text) : text \in {"!hello", "!lights red"}}

InitDrop == \E f \in DropFrames(2) : Established(f)

NextDrop ==
    \/ HandleMessage
    \/ HandleNotification
    \/ \E ok \in BOOLEAN : LightsReturn(ok)
    \/ SendChat(HttpOk)
    \/ \E d \in TickSteps : Tick(d)
    \/ \E f \in DropFrames(nFrames + 1) : ServerSend(f)

SpecDrop == InitDrop /\ [][NextDrop]_vars

\* The text specification: an established session with one chat message
\* made of up to MaxFragments fragments waiting in the queue.
Fragments ==
    {[type |-> "text", text |-> "!echo "], [type |-> "text", text |-> "Hello "],
     [type |-> "text", text |-> "world"], [type |-> "mention", text |-> "@bob"],
     [type |-> "emote", text |-> None]}
FragmentSeqs == UNION {[1..n -> Fragments] : n \in 0..MaxFragments}

InitText ==
    \E frags \in FragmentSeqs, text \in {None, "!hello"} :
        Established(RichFrame(2, "alice", "carol", frags, text))

NextText ==
    \/ HandleNotification
    \/ \E status \in HttpStatuses : SendChat(status)

SpecText == InitText /\ [][NextText]_vars

(***************************************************************************)
(* Properties.                                                             *)
(***************************************************************************)
\* What the properties call a `!lights <value>` invocation: a text whose
\* first word is !lights, in any case, followed by a value.
IsLightsValue(text) ==
    LET words == Split(text)
    IN  Len(words) >= 2 /\ Lower(words[1]) = "!lights"

\* The receive loop dispatches a `!lights <value>` notification in this step.
LightsValueStep ==
    /\ pc = "active"
    /\ inbox # <<>>
    /\ inbox[1].kind = "notification"
    /\ IsLightsValue(inbox[1].text)
    /\ handledSeq' = inbox[1].seq

\* C1: any two chat sends that complete, whatever the channels and the
\* connections they were made on, complete at least the send interval
\* (1.2 s) apart.  The last two are stated; every send is at some time the
\* last.
C1_SendGap == sent.n >= 2 => sent.at - sent.prevAt >= send_interval

\* Two sends have completed, for two channels, on two connections, exactly
\* the send interval apart: the second one waited.
C1_Witness ==
    /\ sent.n >= 2
    /\ sent.ch # sent.prevCh
    /\ sent.k # sent.prevK
    /\ sent.at - sent.prevAt = send_interval

\* C2: a `!lights <value>` invocation issued less than 300 s after one that
\* called the passthrough with success is answered with the cooldown
\* message, and the passthrough is not called.
C2_CooldownHolds ==
    [][(LightsValueStep /\ lights.okAt >= 0 /\ mono - lights.okAt < cooldown)
        => (pc' = "reply" /\ pending'.form = "cooldown" /\ last_lights' = last_lights)]_vars

\* The cooldown message is about to be sent to a channel other than the one
\* of the successful invocation, one tick before the cooldown ends.
C2_Witness ==
    /\ pc = "reply"
    /\ pending.form = "cooldown"
    /\ lights.okAt >= 0
    /\ lights.ch # lights.okCh
    /\ lights.at - lights.okAt = cooldown - 1

\* C3: when the passthrough returns failure the cooldown timestamp is left
\* as it was and the reply carries the failure text; the next
\* `!lights <value>` invocation calls the passthrough again.
C3_FailureKeepsCooldown ==
    [][/\ (pc = "lights_call" /\ lights'.result = "fail")
            => (last_lights' = last_lights /\ pc' = "reply"
                /\ pending'.form = "lights_error")
       /\ (LightsValueStep /\ lights.result = "fail") => pc' = "lights_call"]_vars

\* The passthrough is being called again right after a failed call.
C3_Witness ==
    /\ pc = "lights_call"
    /\ lights.prev = "fail"
    /\ lights.result = "calling"

\* The states of the steady-state receive loop: waiting for a frame, or
\* inside _handle_message on one.
SteadyStates == {"active", "lights_call", "reply"}

\* C4: a session_reconnect frame received in the steady-state receive loop
\* makes the manager leave the steady state, and the next connection
\* attempt targets the URL the frame carried.
C4_ReconnectHonoured ==
    /\ hint # None => pc \notin SteadyStates
    /\ target.hint # None => target.url = target.hint

\* C5: the receive loop runs on a connection only after a welcome was read
\* on it and every channel's subscription was submitted once, in order,
\* against that welcome's session id.
C5_LoopAfterSubscriptions ==
    pc \in SteadyStates =>
        /\ session # None
        /\ Len(subLog) = Len(ChannelSeq)
        /\ \A i \in 1..Len(subLog) :
              subLog[i].sid = session /\ subLog[i].ch = ChannelSeq[i]

\* C6: the receive loop dispatches a frame only when it is idle, the frame
\* is the oldest one waiting, frames are dispatched in the order the server
\* sent them, and each send answers the last frame dispatched, in order.
C6_ArrivalOrder ==
    [][/\ handledSeq' # handledSeq =>
            /\ pc = "active"
            /\ inbox # <<>>
            /\ handledSeq' = inbox[1].seq
            /\ handledSeq' > handledSeq
            /\ inbox' \in {Tail(inbox), <<>>}
       /\ sent' # sent =>
            /\ pc = "reply"
            /\ sent'.seq = handledSeq
            /\ sent'.seq > sent.seq]_vars

\* The reply to a notification is still to be sent while a keepalive that
\* arrived after it waits in the queue.
C6_Witness ==
    /\ pc = "reply"
    /\ cur.kind = "notification"
    /\ inbox # <<>>
    /\ inbox[1].kind = "session_keepalive"
    /\ inbox[1].seq > cur.seq

\* C7: after a 401 from the REST gateway the process makes no further
\* connection attempt.
C7_UnauthorizedIsFatal ==
    [][lastRest = HttpUnauthorized => pc' # "connecting"]_vars

\* C8: run returns only on the shutdown signal; every failure (a connect
\* that raises, a handshake timeout, a closure, a REST error) is followed by
\* the sleep of an except clause or by the next attempt at once, and the
\* sleep is followed by the next connection attempt.
C8_RetryForever ==
    /\ [][/\ pc' = "closed" /\ pc # "closed" => stopped' /\ ~stopped
          /\ pc = "backoff" => pc' \in {"backoff", "connecting", "closed"}]_vars
    /\ (pc = "backoff") ~> (pc \in {"connecting", "closed"})

\* The loop is about to connect again: the sleep of an except clause has
\* ended.
C8_Witness ==
    /\ pc = "connecting"
    /\ nConnects >= 1
    /\ ~stopped
    /\ mono >= BackoffDelay

\* The command word of a chat text, as the properties read it: its first
\* word, in lower case; and the words after it.
CommandWord(text) == IF Split(text) = <<>> THEN "" ELSE Lower(Split(text)[1])
Arguments(text) == IF Split(text) = <<>> THEN <<>> ELSE Tail(Split(text))

\* The receive loop dispatches the chat message at the head of the queue.
CommandStep ==
    /\ pc = "active"
    /\ inbox # <<>>
    /\ inbox[1].kind = "notification"
    /\ handledSeq' = inbox[1].seq

\* A numeric argument: decimal digits only.
IsNumeric(word) == Len(word) > 0 /\ \A i \in 1..Len(word) : IsDecimalChar(Char(word, i))
\* A word without its leading @.
WithoutAt(word) == IF Len(word) > 0 /\ Char(word, 1) = "@" THEN Drop(word, 1) ELSE word

\* The count and the recipient that C9 states for the arguments of !prize.
ExpectedCount(args) ==
    IF Len(args) >= 1 /\ IsNumeric(args[1]) THEN Max(1, Min(5, IntValue(args[1])))
    ELSE IF Len(args) >= 2 /\ IsNumeric(args[2]) THEN Max(1, Min(5, IntValue(args[2])))
    ELSE 1
ExpectedRecipient(args, chatter) ==
    IF Len(args) >= 1 /\ ~IsNumeric(args[1]) THEN WithoutAt(args[1]) ELSE chatter

\* C9: every !prize invocation is answered with one reply, which carries
\* the requested count of phrases clamped to [1,5] (1 by default) and
\* addresses the recipient named by the first argument, or else the
\* invoking user.
C9_PrizeReply ==
    [][(CommandStep /\ CommandWord(inbox[1].text) = "!prize"
            /\ inbox[1].chatter # None)
        => /\ pc' = "reply"
           /\ pending'.form \in {"prize", "prizes"}
           /\ pending'.n = ExpectedCount(Arguments(inbox[1].text))
           /\ pending'.body = ExpectedRecipient(Arguments(inbox[1].text),
                                                inbox[1].chatter)]_vars

\* The command words the Command Processor knows.
KnownCommands == {"!hello", "!echo", "!help", "!lights", "!prize"}

\* C10: a chat text that does not begin with `!`, or whose command word is
\* not a known one, is ignored: no reply is prepared, the lighting
\* passthrough is not called, and the cooldown and the throttle state stay
\* as they were.
C10_UnknownIgnored ==
    [][(CommandStep /\ CommandWord(inbox[1].text) \notin KnownCommands)
        => /\ pc' = "active"
           /\ pending' = pending
           /\ last_lights' = last_lights
           /\ last_send' = last_send]_vars

\* The texts of a message's fragments, one after the other.
RECURSIVE FlatText(_)
FlatText(frags) ==
    IF frags = <<>> THEN ""
    ELSE (IF Head(frags).text = None THEN "" ELSE Head(frags).text) \o FlatText(Tail(frags))

\* C11: the text the Command Processor works on is the text of the
\* message's fragments in their order with nothing in between: the message
\* is handled as that text is.
C11_FragmentsFlattened ==
    [][(CommandStep /\ inbox[1].frags # <<>>)
        => LET out == Commands(FlatText(inbox[1].frags), inbox[1].chatter,
                               wall, last_lights)
           IN  /\ out.kind = "reply" => pc' = "reply" /\ pending' = out.msg
               /\ out.kind = "ignore" => pc' = "active" /\ pending' = pending]_vars

\* The fragments "!echo ", "Hello ", "world" are echoed as "Hello world".
C11_Witness ==
    /\ pc = "reply"
    /\ Len(cur.frags) = 3
    /\ cur.frags[2].text = "Hello "
    /\ cur.frags[3].text = "world"
    /\ pending = Msg("echo", "Hello world", 0, 0)

\* C12: when the REST gateway rejects one subscription with a status other
\* than 401, the bootstrap goes on on the same connection and session with
\* the next channel, or with the receive loop after the last one.
C12_RejectionNotFatal ==
    [][(/\ pc = "subscribing"
        /\ Len(subLog') = Len(subLog) + 1
        /\ subLog'[Len(subLog')].status = HttpBadRequest)
        => /\ conn' = conn
           /\ session' = session
           /\ pc' = IF Len(subLog') < Len(ChannelSeq) THEN "subscribing" ELSE "active"]_vars

\* C13: when send_chat fails with a status other than 401, the receive loop
\* goes on on the same connection and session, with the frames that wait.
C13_SendFailureDropsReply ==
    [][(pc = "reply" /\ lastRest # HttpBadRequest /\ lastRest' = HttpBadRequest)
        => /\ pc' = "active"
           /\ conn' = conn
           /\ session' = session
           /\ inbox' = inbox]_vars

\* C14: the run loop gets to connect again only out of the 2 s sleep, and
\* only when the sleep has lasted its time.
C14_BackoffBeforeAttempt ==
    [][(pc # "connecting" /\ pc' = "connecting")
        => (pc = "backoff" /\ mono >= wake)]_vars

\* C15: the handshake ends, by a welcome or as a failure, within 10 s of
\* the connection: the deadline that Connect set (wake) stays where it is
\* as long as the handshake waits, whatever frames arrive.
C15_HandshakeDeadline ==
    [][(pc = "handshake" /\ pc' = "handshake") => wake' = wake]_vars

\* C16: while run sleeps, is about to connect or has returned, no
\* connection is open and no session is active; and each connection is
\* opened when the one before it has been closed and its frames are gone.
C16_OneConnection ==
    /\ [](pc \in {"connecting", "backoff", "closed"}
            => conn = None /\ session = None /\ inbox = <<>>)
    /\ [][nConnects' = nConnects + 1
            => conn = None /\ session = None /\ inbox = <<>>]_vars

\* A second connection is open with its own session in the receive loop.
C16_Witness ==
    /\ nConnects = 2
    /\ conn = "open"
    /\ pc = "active"
    /\ session = SessionOf(2)

\* C17: a frame that is not JSON, read by the receive loop, is dropped: the
\* loop goes on on the same connection and session with the next frame,
\* nothing is sent or about to be sent, the lighting passthrough is not
\* called, and the cooldown and the throttle state stay as they were.
C17_MalformedDropped ==
    [][(/\ pc = "active"
        /\ inbox # <<>>
        /\ inbox[1].kind = "non_json"
        /\ handledSeq' = inbox[1].seq)
        => /\ pc' = "active"
           /\ conn' = conn
           /\ session' = session
           /\ inbox' = Tail(inbox)
           /\ pending' = pending
           /\ sent' = sent
           /\ lights' = lights
           /\ last_send' = last_send
           /\ last_lights' = last_lights]_vars

\* After a command that set the lights and was answered, a frame that is
\* not JSON has been dropped (the server of this specification sends no
\* other frame that is not a notification), and the session is active.
C17_Witness ==
    /\ pc = "active"
    /\ conn = "open"
    /\ lights.result = "ok"
    /\ sent.n = 1
    /\ handledSeq > sent.seq
    /\ last_lights = StartWall

\* The text after the command word of a chat text.
TextAfterWord(text) == Strip(Drop(Strip(text), WordLen(Strip(text))))

\* C18: every !echo invocation is answered with one reply whose body is
\* the text after the command word, as it was typed; the body is empty when
\* nothing, or only whitespace, follows the command word.
C18_EchoVerbatim ==
    [][(CommandStep /\ CommandWord(inbox[1].text) = "!echo")
        => /\ pc' = "reply"
           /\ pending'.form = "echo"
           /\ pending'.body = TextAfterWord(inbox[1].text)]_vars

\* C19: whatever the wall clock does, a `!lights <value>` invocation calls
\* the passthrough if and only if 300 s or more have elapsed since the last
\* successful one was issued, and no reply waits longer than the send
\* interval before it is sent.
C19_ElapsedTimeOnly ==
    [][/\ (LightsValueStep /\ lights.okAt >= 0)
            => (pc' = "lights_call" <=> mono - lights.okAt >= cooldown)
       /\ pc' = "reply" => wake' - mono' <= send_interval]_vars

\* C20: url changes only in the step in which _on_connected returns, and
\* after the last subscription it is the default URL; a step that ends an
\* attempt in the except clause leaves it, and each attempt connects to url
\* as it is then.
C20_TargetChangesOnReturn ==
    [][/\ url' # url => (pc \in {"handshake", "subscribing"} /\ pc' = "active")
       /\ (pc = "subscribing" /\ pc' = "active") => url' = EVENTSUB_WS_URL
       /\ pc' = "backoff" => url' = url
       /\ nConnects' = nConnects + 1 => target'.url = url]_vars

\* An attempt at a URL the server supplied has failed, and the next attempt
\* will target that URL again.
C20_Witness ==
    /\ pc = "backoff"
    /\ nConnects = 2
    /\ target.url \in ReconnectUrls
    /\ url = target.url

\* C21: as long as no `!lights <value>` invocation has succeeded, every
\* such invocation calls the passthrough; and as long as no send has
\* completed, a reply is sent without a wait.
C21_NoDelayAtStart ==
    [][/\ (LightsValueStep /\ lights.okAt < 0) => pc' = "lights_call"
       /\ (pc' = "reply" /\ sent.n = 0) => wake' = mono']_vars

\* The passthrough is called for the second time, the first call having
\* failed and no call having succeeded, at the instant the first reply of
\* the run went out.
C21_Witness ==
    /\ pc = "lights_call"
    /\ lights.okAt < 0
    /\ lights.prev = "fail"
    /\ sent.n = 1
    /\ sent.at = mono

====
